---------------------------- MODULE Spec2Model ----------------------------
(***************************************************************************)
(* Inventory tracker of src/app.py: four SQLite tables (users, locations,  *)
(* stock, notes) behind SQLAlchemy, the seed initializer init_db, and the  *)
(* Flask routes add_stock, index, login, logout, view_notes and add_note,  *)
(* gated by the per-caller cookie session.                                 *)
(*                                                                         *)
(* A Python value that may be None, and a nullable column, is modelled as  *)
(* a sequence of length at most one: None is <<>>, the value v is <<v>>.   *)
(***************************************************************************)
EXTENDS Integers, Sequences, FiniteSets, TLC

VARIABLES
    users,      \* rows of table 'users'
    locations,  \* rows of table 'locations'
    stock,      \* rows of table 'stock'
    notes,      \* rows of table 'notes'
    session,    \* each caller's Flask session (a signed cookie kept by the caller)
    running,    \* the module has been imported: init_db ran, the routes are served
    req,        \* the operation handled last and its inputs
    resp,       \* what that operation returned to its caller
    created,    \* ids of the notes committed so far, in commit order
    db,         \* the SessionLocal() and db.close() calls of the operation handled last
    schema,     \* the tables and indexes the database file holds
    work        \* each server process's position in the operation it is running

tables == <<users, locations, stock, notes>>
vars == <<users, locations, stock, notes, session, running, req, resp, created, db,
          schema, work>>

---------------------------------------------------------------------------
(* Bounds of the model *)

MaxStock == 3
MaxNotes == 3

Callers == {"A", "B"}

---------------------------------------------------------------------------
(* Optional values *)

None == <<>>
Some(v) == <<v>>

\* Truthiness as it would be if only None were false.
NotNone(o) == o # None

\* Python truthiness of an optional string: None and '' are false.
Truthy(o) == o # None /\ o # Some("")

---------------------------------------------------------------------------
(* Password hashing (werkzeug.security) *)

\* The salt generate_password_hash draws at random.
Salts == {"s1", "s2"}

\* The digest of a password under a salt, an ideal (injective) hash.
Digest(salt, password) == <<salt, password>>

generate_password_hash(salt, password) ==
    [salt |-> salt, digest |-> Digest(salt, password)]

check_password_hash(pwhash, password) ==
    pwhash.digest = Digest(pwhash.salt, password)

---------------------------------------------------------------------------
(* The store: SQLite tables as sets of rows *)

Max(S) == CHOOSE m \in S : \A n \in S : n <= m
Min(S) == CHOOSE m \in S : \A n \in S : m <= n

\* The id a table would give if it handed out its largest id again.
NextIdReused(table) == IF table = {} THEN 1 ELSE Max({r.id : r \in table})

\* INTEGER PRIMARY KEY: SQLite gives a new row the largest id of the table plus one.
NextId(table) == IF table = {} THEN 1 ELSE Max({r.id : r \in table}) + 1

\* Query.first(): the matching row with the least id, or None.
First(rows) ==
    IF rows = {} THEN None
    ELSE Some(CHOOSE r \in rows : r.id = Min({q.id : q \in rows}))

User(id, username, password_hash) ==
    [id |-> id, username |-> username, password_hash |-> password_hash]

Location(id, office, zone, bay) ==
    [id |-> id, office |-> office, zone |-> zone, bay |-> bay]

Stock(id, serial, mfg, dimen, type, modifier, location_id) ==
    [id |-> id, serial |-> serial, mfg |-> mfg, dimen |-> dimen, type |-> type,
     modifier |-> modifier, location_id |-> location_id]

Note(id, content, timestamp) ==
    [id |-> id, content |-> content, timestamp |-> timestamp]

\* The constraints the schema of 'users' makes SQLite check on an INSERT:
\* username is UNIQUE and NOT NULL, password_hash is NOT NULL.
UserViolates(table, row) ==
    \/ row.username = None
    \/ row.password_hash = None
    \/ \E u \in table : u.username = row.username

\* The constraints the schema of 'stock' makes SQLite check on an INSERT:
\* serial is NOT NULL. The column carries no UNIQUE, and the engine is created
\* without PRAGMA foreign_keys=ON, so SQLite does not check location_id.
StockViolates(table, locs, row) ==
    row.serial = None

\* The constraints of 'notes': content is NOT NULL.
NoteViolates(table, row) ==
    row.content = None

\* Column affinity INTEGER: SQLite stores a form string that reads as an integer
\* as that integer.
IntegerAffinity(text) ==
    CASE text = "1" -> 1
      [] text = "2" -> 2
      [] text = "7" -> 7

---------------------------------------------------------------------------
(* Responses *)

Response(kind, target, error, us, st, locs, ns) ==
    [kind |-> kind, target |-> target, error |-> error,
     users |-> us, stock |-> st, locations |-> locs, notes |-> ns]

redirect(endpoint) == Response("redirect", endpoint, None, {}, {}, {}, <<>>)

render_template(template, error, us, st, locs, ns) ==
    Response("render", template, error, us, st, locs, ns)

\* request.form[key] of an absent key outside a try: werkzeug's
\* BadRequestKeyError, which Flask answers with 400.
bad_request == Response("bad_request", "400", None, {}, {}, {}, <<>>)

NoResponse == Response("none", "", None, {}, {}, {}, <<>>)

\* An exception that leaves the operation: Flask answers a request with 500, and
\* init_db, called at import, ends the start of the process.
unhandled == Response("unhandled", "500", None, {}, {}, {}, <<>>)

---------------------------------------------------------------------------
(* Store connections *)

\* What an operation did with its connection: SessionLocal() calls, db.close() calls.
Connection(opened, closed) == [opened |-> opened, closed |-> closed]

\* The operation never called SessionLocal().
NoConnection == Connection(0, 0)

\* The operation opened one connection and closed it.
Closed == Connection(1, 1)

\* The operation opened one connection and an exception skipped its db.close().
LeftOpen == Connection(1, 0)

\* What a commit that writes can end with besides success and IntegrityError: a
\* store failure of another kind (sqlite3.OperationalError, as 'database is locked').
CommitFaults == {FALSE, TRUE}

---------------------------------------------------------------------------
(* Sessions *)

EmptySession == [logged_in |-> None, username |-> None]

\* The gate as it would be with the check left out.
logged_in_unchecked(s) == TRUE

\* session.get('logged_in'), as a truth value
logged_in(s) == s.logged_in = Some(TRUE)

\* The sessions as they would be if the process kept one session for all callers.
save_session_shared(sessions, c, s) == [d \in DOMAIN sessions |-> s]

\* Flask writes the session the request ends with into the cookie of the caller
\* that made the request.
save_session(sessions, c, s) == [sessions EXCEPT ![c] = s]

\* A request: the route, the caller, the session cookie it carries and its form.
Request(op, c, cookie, form) == [op |-> op, caller |-> c, cookie |-> cookie, form |-> form]

---------------------------------------------------------------------------
(* Base.metadata.create_all *)

\* The tables of Base.metadata, in the order of their classes.
Declared == <<"users", "locations", "stock", "notes">>

\* id = Column(Integer, primary_key=True, index=True): the index of each table.
IndexOf(t) ==
    CASE t = "users" -> "ix_users_id"
      [] t = "locations" -> "ix_locations_id"
      [] t = "stock" -> "ix_stock_id"
      [] t = "notes" -> "ix_notes_id"

\* dialect.has_table, the look of checkfirst.
has_table(objects, t) == t \in objects

\* The order create_all creates the missing tables in: the declared order, a
\* table after the table its foreign key refers to ('stock' after 'locations').
sort_tables(missing) ==
    LET Free(t) == t \in missing /\ ~(t = "stock" /\ "locations" \in missing)
        Held(t) == t \in missing /\ (t = "stock" /\ "locations" \in missing)
    IN  SelectSeq(Declared, Free) \o SelectSeq(Declared, Held)

\* The statements that create the tables: CREATE TABLE and then CREATE INDEX,
\* table by table.
RECURSIVE Statements(_)
Statements(ts) ==
    IF ts = <<>> THEN <<>>
    ELSE <<Head(ts), IndexOf(Head(ts))>> \o Statements(Tail(ts))

\* create_all run by one process with no other process at work.
create_all(objects) ==
    LET missing == {Declared[i] : i \in {j \in DOMAIN Declared :
                                              ~has_table(objects, Declared[j])}}
        todo == Statements(sort_tables(missing))
    IN  objects \cup {todo[i] : i \in DOMAIN todo}

---------------------------------------------------------------------------
(* init_db *)

SeedLocation(locs, office, zone, bay) ==
    IF First({l \in locs : l.office = Some(office)}) = None
    THEN locs \cup {Location(NextId(locs), Some(office), Some(zone), Some(bay))}
    ELSE locs

\* User(username='max', password_hash=hashed), with the id its INSERT gets.
PendingUser(us, hashed) == {User(NextId(us), Some("max"), Some(hashed))}

\* Stock(serial=..., location_id=location.id), with the id its INSERT gets after
\* the rows pending before it.
PendingStock(st, pending, serial, mfg, dimen, location) ==
    {Stock(NextId(st \cup pending), Some(serial), Some(mfg), Some(dimen),
           Some("win"), Some("1"), Some(location.id))}

SeedUser(us, hashed) ==
    IF First({u \in us : u.username = Some("max")}) = None
    THEN PendingUser(us, hashed)
    ELSE {}

SeedStock(st, pending, serial, mfg, dimen, location) ==
    IF First({s \in st : s.serial = Some(serial)}) = None
    THEN PendingStock(st, pending, serial, mfg, dimen, location)
    ELSE {}

\* The last commit as it would be without the except clause.
final_commit_uncaught(us, st, locs, newUsers, newStock) ==
    LET violated == \/ \E u \in newUsers : UserViolates(us, u)
                    \/ \E r \in newStock : StockViolates(st, locs, r)
    IN  IF violated
        THEN [users |-> us, stock |-> st, failed |-> TRUE, returned |-> FALSE]
        ELSE [users |-> us \cup newUsers, stock |-> st \cup newStock,
              failed |-> FALSE, returned |-> TRUE]

\* The last commit as it would be if each row were committed on its own.
final_commit_row_by_row(us, st, locs, newUsers, newStock) ==
    [users |-> us \cup {u \in newUsers : ~UserViolates(us, u)},
     stock |-> st \cup {r \in newStock : ~StockViolates(st, locs, r)},
     failed |-> \/ \E u \in newUsers : UserViolates(us, u)
                \/ \E r \in newStock : StockViolates(st, locs, r),
     returned |-> TRUE]

\* try: db.commit() / except IntegrityError: db.rollback(). The pending rows are
\* written in one transaction: all of them, or on a violation none.
final_commit(us, st, locs, newUsers, newStock) ==
    LET violated == \/ \E u \in newUsers : UserViolates(us, u)
                    \/ \E r \in newStock : StockViolates(st, locs, r)
    IN  IF violated
        THEN [users |-> us, stock |-> st, failed |-> TRUE, returned |-> TRUE]
        ELSE [users |-> us \cup newUsers, stock |-> st \cup newStock,
              failed |-> FALSE, returned |-> TRUE]

init_db ==
    \E salt \in Salts, fault \in {"none", "tpa", "clw", "final"} :
        LET locs1 == SeedLocation(locations, "TPA", "GAR", "A")
            locs2 == SeedLocation(locs1, "CLW", "CON", "B")
            default_location == First({l \in locs2 : l.office = Some("TPA")})[1]
            new_location == First({l \in locs2 : l.office = Some("CLW")})[1]
            hashed == generate_password_hash(salt, "a")
            newUsers == SeedUser(users, hashed)
            s1137 == SeedStock(stock, {}, "1137", "sbp", "25x50", default_location)
            s1138 == SeedStock(stock, s1137, "1138", "pgt", "10x10", new_location)
            newStock == s1137 \cup s1138
            out == final_commit(users, stock, locs2, newUsers, newStock)
        IN  /\ req' = Request("init_db", "", EmptySession, <<>>)
            /\ schema' = create_all(schema)
            /\ UNCHANGED work
            /\ UNCHANGED <<notes, session, created>>
            /\ CASE fault = "tpa" ->
                    \* db.commit() of line 71 raises: nothing catches it
                    /\ locs1 # locations
                    /\ UNCHANGED <<locations, users, stock>>
                    /\ running' = FALSE /\ resp' = unhandled /\ db' = LeftOpen
                 [] fault = "clw" ->
                    \* db.commit() of line 79 raises: nothing catches it
                    /\ locs2 # locs1
                    /\ locations' = locs1
                    /\ UNCHANGED <<users, stock>>
                    /\ running' = FALSE /\ resp' = unhandled /\ db' = LeftOpen
                 [] fault = "final" ->
                    \* db.commit() of line 100 raises another error than IntegrityError
                    /\ newUsers \cup newStock # {}
                    /\ locations' = locs2
                    /\ UNCHANGED <<users, stock>>
                    /\ running' = FALSE /\ resp' = unhandled /\ db' = LeftOpen
                 [] fault = "none" ->
                    /\ Cardinality(out.stock) <= MaxStock
                    /\ locations' = locs2
                    /\ users' = out.users
                    /\ stock' = out.stock
                    /\ running' = out.returned
                    /\ resp' = IF out.returned THEN NoResponse ELSE unhandled
                    /\ db' = IF out.returned THEN Closed ELSE LeftOpen

---------------------------------------------------------------------------
(* Server processes *)

\* The processes that serve the one database file (each imports the module, and
\* so runs init_db, when it starts).
Workers == {"w1", "w2"}

\* A process that is not started.
Down == [pc |-> "down"]

\* A process whose import of the module ended in an exception.
Crashed == [pc |-> "crashed"]

---------------------------------------------------------------------------
(* Request inputs *)

\* The fields of an add_stock form; a field that is not posted is None.
StockForm(serial, mfg, dimen, type, modifier, location_id) ==
    [serial |-> serial, mfg |-> mfg, dimen |-> dimen, type |-> type,
     modifier |-> modifier, location_id |-> location_id]

StockForms ==
    { StockForm(Some("9999"), Some("pgt"), Some("10x10"), Some("win"), Some("1"), Some("1")),
      StockForm(Some("9999"), None, None, None, None, Some("7")),
      StockForm(Some("1137"), None, None, None, None, None),
      StockForm(None, Some("sbp"), None, None, None, Some("2")) }

LoginForms ==
    [username : {None, Some("max"), Some("nouser")},
     password : {None, Some("a"), Some("wrong"), Some("x")}]

NoteForms == [note_content : {None, Some(""), Some("n1")}]

\* datetime.now().strftime("%Y-%m-%d %H:%M:%S"): the wall clock's reading.
Clock == {"2026-10-29 09:00:00", "2026-10-29 09:00:01"}

---------------------------------------------------------------------------
(* add_stock *)

add_stock(c, form, fault) ==
    /\ running
    /\ req' = Request("add_stock", c, session[c], form)
    /\ UNCHANGED <<schema, work>>
    /\ IF ~logged_in(session[c])
       THEN /\ ~fault
            /\ resp' = redirect("index")
            /\ db' = NoConnection
            /\ UNCHANGED <<tables, session, running, created>>
       ELSE IF form.serial = None
       THEN \* request.form['serial'] raises, the except returns the redirect
            /\ ~fault
            /\ resp' = redirect("index")
            /\ db' = NoConnection
            /\ UNCHANGED <<tables, session, running, created>>
       ELSE IF fault
       THEN \* db.commit() raises another error than IntegrityError: no except
            \* clause takes it, db.close() is not reached
            /\ resp' = unhandled
            /\ db' = LeftOpen
            /\ UNCHANGED <<tables, session, running, created>>
       ELSE LET new_item == Stock(NextId(stock), form.serial, form.mfg, form.dimen,
                                  form.type, form.modifier,
                                  IF form.location_id = None THEN None
                                  ELSE Some(IntegerAffinity(form.location_id[1])))
                failed == StockViolates(stock, locations, new_item)
            IN  /\ Cardinality(stock) < MaxStock
                /\ stock' = IF failed THEN stock ELSE stock \cup {new_item}
                /\ resp' = redirect("index")
                /\ db' = Closed
                /\ UNCHANGED <<users, locations, notes, session, running, created>>

---------------------------------------------------------------------------
(* index *)

\* The join as it would be on the stock row's own id.
joinedload_on_id(item, locs) ==
    [item |-> item,
     location |-> IF item.location_id = None THEN None
                  ELSE First({l \in locs : l.id = item.id})]

\* joinedload(Stock.location): the LEFT OUTER JOIN of a stock row to its location.
joinedload(item, locs) ==
    [item |-> item,
     location |-> IF item.location_id = None THEN None
                  ELSE First({l \in locs : l.id = item.location_id[1]})]

index(c) ==
    /\ running
    /\ req' = Request("index", c, session[c], <<>>)
    /\ UNCHANGED <<schema, work>>
    /\ resp' = IF logged_in(session[c])
               THEN render_template("index.html", None, users,
                                    {joinedload(s, locations) : s \in stock},
                                    locations, <<>>)
               ELSE render_template("login.html", None, {}, {}, {}, <<>>)
    /\ db' = IF logged_in(session[c]) THEN Closed ELSE NoConnection
    /\ UNCHANGED <<tables, session, running, created>>

---------------------------------------------------------------------------
(* login, logout *)

\* login as it would be without the password check.
login_result_any_password(us, s, form) ==
    LET user == First({u \in us : u.username = form.username})
    IN  IF user # None
        THEN [session |-> [s EXCEPT !.logged_in = Some(TRUE),
                                    !.username = user[1].username],
              resp |-> redirect("index")]
        ELSE [session |-> s,
              resp |-> render_template("login.html", Some("Invalid credentials"),
                                       {}, {}, {}, <<>>)]

\* login as it would be with a message of its own for an unknown username.
login_result_tells_cause(us, s, form) ==
    LET user == First({u \in us : u.username = form.username})
    IN  IF user # None /\ check_password_hash(user[1].password_hash[1], form.password[1])
        THEN [session |-> [s EXCEPT !.logged_in = Some(TRUE),
                                    !.username = user[1].username],
              resp |-> redirect("index")]
        ELSE [session |-> s,
              resp |-> render_template("login.html",
                                       IF user = None THEN Some("Unknown user")
                                       ELSE Some("Invalid credentials"),
                                       {}, {}, {}, <<>>)]

\* login as it would be if a failure dropped the session.
login_result_clears(us, s, form) ==
    LET user == First({u \in us : u.username = form.username})
    IN  IF user # None /\ check_password_hash(user[1].password_hash[1], form.password[1])
        THEN [session |-> [s EXCEPT !.logged_in = Some(TRUE),
                                    !.username = user[1].username],
              resp |-> redirect("index")]
        ELSE [session |-> EmptySession,
              resp |-> render_template("login.html", Some("Invalid credentials"),
                                       {}, {}, {}, <<>>)]

\* login as it would be if it set 'logged_in' and forgot 'username'.
login_result_no_username(us, s, form) ==
    LET user == First({u \in us : u.username = form.username})
    IN  IF user # None /\ check_password_hash(user[1].password_hash[1], form.password[1])
        THEN [session |-> [s EXCEPT !.logged_in = Some(TRUE)],
              resp |-> redirect("index")]
        ELSE [session |-> s,
              resp |-> render_template("login.html", Some("Invalid credentials"),
                                       {}, {}, {}, <<>>)]

\* What login leaves in the caller's session and returns, the form being complete.
login_result(us, s, form) ==
    LET user == First({u \in us : u.username = form.username})
    IN  IF user # None /\ check_password_hash(user[1].password_hash[1], form.password[1])
        THEN [session |-> [s EXCEPT !.logged_in = Some(TRUE),
                                    !.username = user[1].username],
              resp |-> redirect("index")]
        ELSE [session |-> s,
              resp |-> render_template("login.html", Some("Invalid credentials"),
                                       {}, {}, {}, <<>>)]

login(c, form) ==
    /\ running
    /\ req' = Request("login", c, session[c], form)
    /\ UNCHANGED <<schema, work>>
    /\ IF form.username = None \/ form.password = None
       THEN /\ resp' = bad_request
            /\ db' = NoConnection
            /\ UNCHANGED session
       ELSE LET out == login_result(users, session[c], form)
            IN  /\ session' = save_session(session, c, out.session)
                /\ resp' = out.resp
                /\ db' = Closed
    /\ UNCHANGED <<tables, running, created>>

\* logout as it would be if it dropped the username only.
clear_username_only(s) == [s EXCEPT !.username = None]

\* session.clear()
clear(s) == EmptySession

logout(c) ==
    /\ running
    /\ req' = Request("logout", c, session[c], <<>>)
    /\ UNCHANGED <<schema, work>>
    /\ session' = save_session(session, c, clear(session[c]))
    /\ resp' = redirect("index")
    /\ db' = NoConnection
    /\ UNCHANGED <<tables, running, created>>

---------------------------------------------------------------------------
(* view_notes, add_note *)

\* The listing as it would be ordered by ascending id.
RECURSIVE order_by_id_asc(_)
order_by_id_asc(rows) ==
    IF rows = {} THEN <<>>
    ELSE LET low == CHOOSE r \in rows : r.id = Min({q.id : q \in rows})
         IN  <<low>> \o order_by_id_asc(rows \ {low})

\* order_by(Note.id.desc()).all()
RECURSIVE order_by_id_desc(_)
order_by_id_desc(rows) ==
    IF rows = {} THEN <<>>
    ELSE LET top == CHOOSE r \in rows : r.id = Max({q.id : q \in rows})
         IN  <<top>> \o order_by_id_desc(rows \ {top})

view_notes(c) ==
    /\ running
    /\ req' = Request("view_notes", c, session[c], <<>>)
    /\ UNCHANGED <<schema, work>>
    /\ resp' = IF ~logged_in(session[c])
               THEN redirect("index")
               ELSE render_template("notes.html", None, {}, {}, {},
                                    order_by_id_desc(notes))
    /\ db' = IF logged_in(session[c]) THEN Closed ELSE NoConnection
    /\ UNCHANGED <<tables, session, running, created>>

add_note(c, form, fault) ==
    /\ running
    /\ req' = Request("add_note", c, session[c], form)
    /\ UNCHANGED <<schema, work>>
    /\ IF ~logged_in(session[c])
       THEN /\ ~fault
            /\ resp' = redirect("index")
            /\ db' = NoConnection
            /\ UNCHANGED <<tables, session, running, created>>
       ELSE IF ~Truthy(form.note_content)
       THEN /\ ~fault
            /\ resp' = redirect("view_notes")
            /\ db' = NoConnection
            /\ UNCHANGED <<tables, session, running, created>>
       ELSE \E current_time \in Clock :
            LET new_note == Note(NextId(notes), form.note_content, Some(current_time))
                \* except Exception: a constraint violation and any other failure
                \* of the commit are rolled back alike
                failed == fault \/ NoteViolates(notes, new_note)
            IN  /\ failed \/ Cardinality(notes) < MaxNotes
                /\ notes' = IF failed THEN notes ELSE notes \cup {new_note}
                /\ created' = IF failed THEN created ELSE Append(created, new_note.id)
                /\ resp' = redirect("view_notes")
                /\ db' = Closed
                /\ UNCHANGED <<users, locations, stock, session, running>>

---------------------------------------------------------------------------

Init ==
    /\ users = {}
    /\ locations = {}
    /\ stock = {}
    /\ notes = {}
    /\ session = [c \in Callers |-> EmptySession]
    /\ running = FALSE
    /\ req = Request("none", "", EmptySession, <<>>)
    /\ resp = NoResponse
    /\ created = <<>>
    /\ db = NoConnection
    /\ schema = {}
    /\ work = [w \in Workers |-> Down]

\* One process, one operation at a time, each run from its start to its end.
Next ==
    \/ init_db
    \/ \E c \in Callers, form \in StockForms, fault \in CommitFaults :
           add_stock(c, form, fault)
    \/ \E c \in Callers : index(c)
    \/ \E c \in Callers, form \in LoginForms : login(c, form)
    \/ \E c \in Callers : logout(c)
    \/ \E c \in Callers : view_notes(c)
    \/ \E c \in Callers, form \in NoteForms, fault \in CommitFaults :
           add_note(c, form, fault)

Spec == Init /\ [][Next]_vars

---------------------------------------------------------------------------
(* Two server processes on the one database file, statement by statement *)

\* The caller whose requests the two processes serve.
RaceCallers == {"A"}

\* The Stock rows the store holds at most in these runs: the two seeded ones and
\* two added by requests.
MaxRaceStock == 4

\* A process inside init_db: the rows its lookups returned, the Locations it
\* committed, whether it has the User and each Stock row pending, and how its
\* last commit ended.
InitDbWork(pc, default_location, new_location, made, puser, p1137, p1138, failed, raced) ==
    [pc |-> pc, op |-> "init_db", default_location |-> default_location,
     new_location |-> new_location, made |-> made, puser |-> puser,
     p1137 |-> p1137, p1138 |-> p1138, failed |-> failed, raced |-> raced]

\* A process inside add_stock: the Stock it has pending and how its commit ended.
StockWork(pc, item, failed, raced) ==
    [pc |-> pc, op |-> "add_stock", item |-> item, failed |-> failed, raced |-> raced]

\* The process is between operations: not started, or back from one.
AtRest(w) == work[w].pc \in {"down", "crashed", "idle"}

\* A process inside create_all: the table it looks for next, the tables it found
\* missing, and the statements it has still to run.
CreateWork(pc, at, missing, todo) ==
    [pc |-> pc, op |-> "init_db", at |-> at, missing |-> missing, todo |-> todo]

\* Line 64: create_all is done and init_db opens its session.
Opened == InitDbWork("q_tpa", None, None, {}, FALSE, FALSE, FALSE, FALSE, FALSE)

\* One look of checkfirst: the table Declared[at] is missing or not; after the
\* last look the missing tables are sorted, and with none missing create_all is
\* done.
Looked(at, missing) ==
    LET found == IF has_table(schema, Declared[at]) THEN missing
                 ELSE missing \cup {Declared[at]}
    IN  IF at < Len(Declared) THEN CreateWork("look", at + 1, found, <<>>)
        ELSE IF found = {} THEN Opened
        ELSE CreateWork("create", at, found, Statements(sort_tables(found)))

\* Lines 60-63: the process starts (again), and create_all looks for the first
\* table.
init_db_start(w) ==
    /\ AtRest(w)
    /\ work' = [work EXCEPT ![w] = Looked(1, {})]
    /\ UNCHANGED <<tables, session, running, req, resp, created, db, schema>>

\* Line 63: create_all looks for the next table.
create_all_has_table(w) ==
    /\ work[w].pc = "look"
    /\ work' = [work EXCEPT ![w] = Looked(work[w].at, work[w].missing)]
    /\ UNCHANGED <<tables, session, running, req, resp, created, db, schema>>

\* Line 63: create_all runs its next CREATE TABLE or CREATE INDEX; each is
\* committed on its own. When another process has created the table since the
\* look, SQLite answers 'table already exists': the OperationalError is raised
\* outside any try, the import fails and the process has opened no session.
create_all_create(w) ==
    /\ work[w].pc = "create"
    /\ LET statement == Head(work[w].todo)
           rest == Tail(work[w].todo)
       IN  IF statement \in schema
           THEN /\ work' = [work EXCEPT ![w] = Crashed]
                /\ UNCHANGED schema
           ELSE /\ schema' = schema \cup {statement}
                /\ work' = [work EXCEPT ![w] =
                              IF rest = <<>> THEN Opened
                              ELSE [work[w] EXCEPT !.todo = rest]]
    /\ UNCHANGED <<tables, session, running, req, resp, created, db>>

\* Lines 67-68 and 75-76: the lookup of a Location by its office.
init_db_location_lookup(w, at, office, insert, next) ==
    /\ work[w].pc = at
    /\ LET found == First({l \in locations : l.office = Some(office)})
       IN  work' = [work EXCEPT ![w] =
                      IF found = None
                      THEN [work[w] EXCEPT !.pc = insert]
                      ELSE IF office = "TPA"
                      THEN [work[w] EXCEPT !.pc = next, !.default_location = found]
                      ELSE [work[w] EXCEPT !.pc = next, !.new_location = found]]
    /\ UNCHANGED <<tables, session, running, req, resp, created, db, schema>>

\* Lines 69-71 and 77-79: db.add(Location(...)); db.commit().
init_db_location_commit(w, at, office, zone, bay, next) ==
    /\ work[w].pc = at
    /\ LET row == Location(NextId(locations), Some(office), Some(zone), Some(bay))
       IN  /\ locations' = locations \cup {row}
           /\ work' = [work EXCEPT ![w] =
                         IF office = "TPA"
                         THEN [work[w] EXCEPT !.pc = next, !.default_location = Some(row),
                                              !.made = @ \cup {row}]
                         ELSE [work[w] EXCEPT !.pc = next, !.new_location = Some(row),
                                              !.made = @ \cup {row}]]
    /\ UNCHANGED <<users, stock, notes, session, running, req, resp, created, db, schema>>

\* Another process has a User 'max' pending at this moment.
UserPendingElsewhere(w) ==
    \E v \in Workers \ {w} :
        /\ work[v].pc \in {"q_1137", "q_1138", "commit"}
        /\ work[v].puser

\* Lines 84-87: the lookup of User 'max'; the User is pending when there is none.
init_db_user_lookup(w) ==
    /\ work[w].pc = "q_user"
    /\ LET absent == First({u \in users : u.username = Some("max")}) = None
           race == absent /\ UserPendingElsewhere(w)
       IN  work' = [v \in Workers |->
                      IF v = w
                      THEN [work[w] EXCEPT !.pc = "q_1137", !.puser = absent,
                                           !.raced = race]
                      ELSE IF race /\ work[v].pc \in {"q_1137", "q_1138", "commit"}
                                   /\ work[v].puser
                      THEN [work[v] EXCEPT !.raced = TRUE]
                      ELSE work[v]]
    /\ UNCHANGED <<tables, session, running, req, resp, created, db, schema>>

\* Lines 90-92 and 95-97: the lookup of a Stock row by its serial.
init_db_stock_lookup(w, at, serial, next) ==
    /\ work[w].pc = at
    /\ LET absent == First({r \in stock : r.serial = Some(serial)}) = None
       IN  work' = [work EXCEPT ![w] =
                      IF serial = "1137"
                      THEN [work[w] EXCEPT !.pc = next, !.p1137 = absent]
                      ELSE [work[w] EXCEPT !.pc = next, !.p1138 = absent]]
    /\ UNCHANGED <<tables, session, running, req, resp, created, db, schema>>

\* Lines 99-105: the commit of the pending User and Stock rows, and db.close().
\* The salt of line 83 shows in the User row this commit writes and nowhere else.
init_db_commit(w) ==
    /\ work[w].pc = "commit"
    /\ \E salt \in Salts :
       LET newUsers == IF work[w].puser
                       THEN PendingUser(users, generate_password_hash(salt, "a"))
                       ELSE {}
           s1137 == IF work[w].p1137
                    THEN PendingStock(stock, {}, "1137", "sbp", "25x50",
                                      work[w].default_location[1])
                    ELSE {}
           s1138 == IF work[w].p1138
                    THEN PendingStock(stock, s1137, "1138", "pgt", "10x10",
                                      work[w].new_location[1])
                    ELSE {}
           out == final_commit(users, stock, locations, newUsers, s1137 \cup s1138)
       IN  /\ Cardinality(out.stock) <= MaxRaceStock
           /\ users' = out.users
           /\ stock' = out.stock
           /\ work' = [work EXCEPT ![w] =
                         [work[w] EXCEPT !.pc = IF out.returned THEN "idle" ELSE "down",
                                         !.failed = out.failed]]
           /\ running' = (running \/ out.returned)
    /\ UNCHANGED <<locations, notes, session, req, resp, created, db, schema>>

\* The add_stock requests in flight.
InFlight == {v \in Workers : work[v].pc = "as_commit"}

\* Lines 113-131: the gate, the Stock built from the form, and db.add(new_item).
\* A request that the gate or the missing serial turns away ends here.
add_stock_begin(w, c, form) ==
    /\ work[w].pc = "idle"
    /\ UNCHANGED <<tables, session, running, req, resp, created, db, schema>>
    /\ IF ~logged_in(session[c]) \/ form.serial = None
       THEN UNCHANGED work
       ELSE /\ Cardinality(stock) + Cardinality(InFlight) < MaxRaceStock
            /\ LET race == \E v \in InFlight : work[v].item.serial = form.serial
               IN  work' = [v \in Workers |->
                              IF v = w THEN StockWork("as_commit", form, FALSE, race)
                              ELSE IF v \in InFlight /\ work[v].item.serial = form.serial
                              THEN [work[v] EXCEPT !.raced = TRUE]
                              ELSE work[v]]

\* Lines 133-140: the commit of the pending Stock row, and db.close().
add_stock_commit(w) ==
    /\ work[w].pc = "as_commit"
    /\ LET form == work[w].item
           new_item == Stock(NextId(stock), form.serial, form.mfg, form.dimen,
                             form.type, form.modifier,
                             IF form.location_id = None THEN None
                             ELSE Some(IntegerAffinity(form.location_id[1])))
           failed == StockViolates(stock, locations, new_item)
       IN  /\ stock' = IF failed THEN stock ELSE stock \cup {new_item}
           /\ work' = [work EXCEPT ![w] = [work[w] EXCEPT !.pc = "idle",
                                                          !.failed = failed]]
    /\ UNCHANGED <<users, locations, notes, session, running, req, resp, created, db, schema>>

NextRace ==
    \/ \E w \in Workers : init_db_start(w)
    \/ \E w \in Workers : create_all_has_table(w)
    \/ \E w \in Workers : create_all_create(w)
    \/ \E w \in Workers : init_db_location_lookup(w, "q_tpa", "TPA", "c_tpa", "q_clw")
    \/ \E w \in Workers : init_db_location_commit(w, "c_tpa", "TPA", "GAR", "A", "q_clw")
    \/ \E w \in Workers : init_db_location_lookup(w, "q_clw", "CLW", "c_clw", "q_user")
    \/ \E w \in Workers : init_db_location_commit(w, "c_clw", "CLW", "CON", "B", "q_user")
    \/ \E w \in Workers : init_db_user_lookup(w)
    \/ \E w \in Workers : init_db_stock_lookup(w, "q_1137", "1137", "q_1138")
    \/ \E w \in Workers : init_db_stock_lookup(w, "q_1138", "1138", "commit")
    \/ \E w \in Workers : init_db_commit(w)
    \/ \E c \in RaceCallers :
           login(c, [username |-> Some("max"), password |-> Some("a")])
    \/ \E w \in Workers, c \in RaceCallers, form \in StockForms :
           add_stock_begin(w, c, form)
    \/ \E w \in Workers : add_stock_commit(w)

SpecRace == Init /\ [][NextRace]_vars

---------------------------------------------------------------------------
(* Properties *)

\* The Session Gate's two states, read off the session itself.
Anonymous(s) == s.logged_in = None
Authenticated(s, username) == s = [logged_in |-> Some(TRUE), username |-> username]

Count(rows) == Cardinality(rows)

SeededOnce ==
    /\ Count({l \in locations : l.office = Some("TPA")}) = 1
    /\ Count({l \in locations : l.office = Some("CLW")}) = 1
    /\ Count({u \in users : u.username = Some("max")}) = 1
    /\ Count({s \in stock : s.serial = Some("1137")}) = 1
    /\ Count({s \in stock : s.serial = Some("1138")}) = 1

\* C1: after a run of init_db to its end, from whatever store state it started, the store
\* holds exactly one Location 'TPA', one Location 'CLW', one User 'max', one
\* Stock '1137' and one Stock '1138'.
C1_SeedExactlyOnce == (req.op = "init_db" /\ resp = NoResponse) => SeededOnce

\* C2: an authenticated add_stock whose serial is already the serial of a Stock
\* row leaves the number of rows with that serial unchanged, and ends with the
\* redirect to the index.
C2_DuplicateSerialRejected ==
    [][(/\ req'.op = "add_stock"
        /\ ~Anonymous(req'.cookie)
        /\ req'.form.serial # None
        /\ \E s \in stock : s.serial = req'.form.serial
        /\ resp' # unhandled)
       => /\ Count({s \in stock' : s.serial = req'.form.serial})
               = Count({s \in stock : s.serial = req'.form.serial})
          /\ resp' = redirect("index")]_vars

GatedOps == {"add_stock", "index", "add_note", "view_notes"}

NoData(r) == r.users = {} /\ r.stock = {} /\ r.locations = {} /\ r.notes = <<>>

\* C3: add_stock, index, add_note and view_notes from an anonymous session leave
\* the four tables as they were and return no Users, Stock, Locations or Notes.
C3_AnonymousGated ==
    [][(req'.op \in GatedOps /\ Anonymous(req'.cookie))
       => (tables' = tables /\ NoData(resp'))]_vars

\* An anonymous caller posted a complete stock form to a store that holds rows
\* of every table.
C3_Witness ==
    /\ req.op = "add_stock"
    /\ Anonymous(req.cookie)
    /\ req.form.serial # None
    /\ users # {} /\ locations # {} /\ stock # {} /\ notes # {}

\* A login form with both fields posted.
Complete(form) == form.username # None /\ form.password # None

\* A User with the form's username exists and the form's password verifies
\* against that user's stored hash.
Verifies(us, form) ==
    \E u \in us : /\ u.username = form.username
                  /\ u.password_hash[1].digest
                        = Digest(u.password_hash[1].salt, form.password[1])

\* C4: a session goes from anonymous to authenticated(u) exactly in a login(u, p)
\* by that caller where a User u exists and p verifies against its hash; every
\* such login authenticates, and nothing else does.
C4_LoginOnlyAuthenticates ==
    [][/\ \A c \in Callers :
            (Anonymous(session[c]) /\ ~Anonymous(session'[c]))
            => /\ req'.op = "login" /\ req'.caller = c
               /\ Complete(req'.form)
               /\ Verifies(users, req'.form)
               /\ Authenticated(session'[c], req'.form.username)
       /\ (req'.op = "login" /\ Complete(req'.form) /\ Verifies(users, req'.form))
            => Authenticated(session'[req'.caller], req'.form.username)
       /\ (req'.op = "login" /\ Complete(req'.form) /\ ~Verifies(users, req'.form)
                             /\ Anonymous(req'.cookie))
            => Anonymous(session'[req'.caller])]_vars

\* An anonymous caller has logged in as 'max' with password 'a'.
C4_Witness ==
    /\ req.op = "login"
    /\ Anonymous(req.cookie)
    /\ req.form = [username |-> Some("max"), password |-> Some("a")]
    /\ Authenticated(session[req.caller], Some("max"))

NoSuchUser(us, form) == ~ \E u \in us : u.username = form.username

HashMismatch(us, form) ==
    \E u \in us : /\ u.username = form.username
                  /\ u.password_hash[1].digest
                        # Digest(u.password_hash[1].salt, form.password[1])

\* C5: from one session and store state, a login failing for an unknown username
\* and a login failing for a wrong password leave the same session and return
\* the same response.
C5_FailuresIndistinguishable ==
    \A c \in Callers : \A f1, f2 \in LoginForms :
        (/\ Complete(f1) /\ Complete(f2)
         /\ NoSuchUser(users, f1)
         /\ HashMismatch(users, f2))
        => login_result(users, session[c], f1) = login_result(users, session[c], f2)

\* A login with a wrong password has just failed for the existing user 'max',
\* so both causes of failure are possible in this store.
C5_Witness ==
    /\ req.op = "login"
    /\ Complete(req.form)
    /\ HashMismatch(users, req.form)
    /\ \E f \in LoginForms : Complete(f) /\ NoSuchUser(users, f)
    /\ resp.error = Some("Invalid credentials")

\* C6: a failing login (unknown username or hash mismatch) changes neither the
\* store nor any session, whether the caller was anonymous or authenticated.
C6_FailedLoginNoEffect ==
    [][(req'.op = "login" /\ Complete(req'.form) /\ ~Verifies(users, req'.form))
       => (tables' = tables /\ session' = session)]_vars

\* An authenticated caller's login has failed and the caller is still authenticated.
C6_Witness ==
    /\ req.op = "login"
    /\ Complete(req.form)
    /\ ~Verifies(users, req.form)
    /\ ~Anonymous(req.cookie)
    /\ session[req.caller] = req.cookie

\* What a gated route answers when it refuses the caller.
Refusal == {redirect("index"), render_template("login.html", None, {}, {}, {}, <<>>)}

\* C7: logout leaves the caller's session anonymous whatever it was, and does not
\* change the store; an anonymous caller's gated operations are refused.
C7_LogoutAnonymous ==
    [][/\ req'.op = "logout"
            => /\ session'[req'.caller] = EmptySession
               /\ Anonymous(session'[req'.caller])
               /\ tables' = tables
       /\ (req'.op \in GatedOps /\ Anonymous(session[req'.caller]))
            => resp' \in Refusal]_vars

\* An authenticated caller has logged out.
C7_Witness ==
    /\ req.op = "logout"
    /\ ~Anonymous(req.cookie)
    /\ Anonymous(session[req.caller])

\* C8: every Stock row with a location_id references a Location of the store (an
\* add_stock whose location_id matches no Location persists no row).
C8_LocationIdReferencesLocation ==
    \A s \in stock :
        s.location_id # None => \E l \in locations : l.id = s.location_id[1]

\* C9: for an authenticated caller view_notes lists every Note of the store, in
\* strictly descending id order, which is the reverse of the order in which the
\* notes were committed.
C9_NotesNewestFirst ==
    (req.op = "view_notes" /\ ~Anonymous(req.cookie))
    => /\ resp.kind = "render" /\ resp.target = "notes.html"
       /\ Len(resp.notes) = Cardinality(notes)
       /\ {resp.notes[i] : i \in 1..Len(resp.notes)} = notes
       /\ \A i, j \in 1..Len(resp.notes) :
              i < j => resp.notes[i].id > resp.notes[j].id
       /\ Len(created) = Len(resp.notes)
       /\ \A i \in 1..Len(resp.notes) :
              resp.notes[i].id = created[Len(created) + 1 - i]

\* Three notes were added and an authenticated caller has listed them.
C9_Witness ==
    /\ req.op = "view_notes"
    /\ ~Anonymous(req.cookie)
    /\ Len(created) = 3
    /\ Len(resp.notes) = 3

UniqueIds(table) == \A r, q \in table : r.id = q.id => r = q

\* C10: every operation keeps each row of the four tables as it is, and no id is
\* given to two rows of one table.
C10_AppendOnly ==
    [][/\ users \subseteq users' /\ UniqueIds(users')
       /\ locations \subseteq locations' /\ UniqueIds(locations')
       /\ stock \subseteq stock' /\ UniqueIds(stock')
       /\ notes \subseteq notes' /\ UniqueIds(notes')]_vars

\* Rows were added by init_db, add_stock and add_note, and init_db has run again.
C10_Witness ==
    /\ req.op = "init_db"
    /\ users # {} /\ Cardinality(locations) = 2
    /\ Cardinality(stock) = 3
    /\ Cardinality(notes) >= 2

\* C12: an authenticated add_stock without 'serial', and an authenticated add_note
\* whose note_content is absent or empty, open no store connection, leave the four
\* tables and every session as they were, and end with the normal redirect.
C12_ValidationBeforeStore ==
    [][/\ (req'.op = "add_stock" /\ ~Anonymous(req'.cookie) /\ req'.form.serial = None)
            => /\ db' = NoConnection
               /\ tables' = tables /\ session' = session
               /\ resp' = redirect("index")
       /\ (req'.op = "add_note" /\ ~Anonymous(req'.cookie)
                                /\ req'.form.note_content \in {None, Some("")})
            => /\ db' = NoConnection
               /\ tables' = tables /\ session' = session
               /\ resp' = redirect("view_notes")]_vars

\* An authenticated caller has posted an empty note to a store that has room for it.
C12_Witness ==
    /\ req.op = "add_note"
    /\ ~Anonymous(req.cookie)
    /\ req.form.note_content = Some("")
    /\ Cardinality(notes) < MaxNotes
    /\ resp = redirect("view_notes")

\* C13: a request of one caller, a login or logout among them, leaves every other
\* caller's session as it was, and a gated listing is served or refused by the
\* requesting caller's own session alone.
C13_SessionPerCaller ==
    [][/\ \A c \in Callers : c # req'.caller => session'[c] = session[c]
       /\ req'.op \in {"index", "view_notes"}
            => ((resp'.kind = "render" /\ resp'.target \in {"index.html", "notes.html"})
                <=> ~Anonymous(session[req'.caller]))]_vars

\* One caller has logged out while another caller stays authenticated.
C13_Witness ==
    /\ req.op = "logout"
    /\ ~Anonymous(req.cookie)
    /\ \E c \in Callers : c # req.caller /\ Authenticated(session[c], Some("max"))

\* C14: for an authenticated caller index returns all Users, all Locations and all
\* Stock rows, and a Stock row whose location_id is the id of a Location comes
\* with exactly that Location.
C14_InventoryListing ==
    (req.op = "index" /\ ~Anonymous(req.cookie))
    => /\ resp.kind = "render" /\ resp.target = "index.html"
       /\ resp.users = users
       /\ resp.locations = locations
       /\ {e.item : e \in resp.stock} = stock
       /\ Cardinality(resp.stock) = Cardinality(stock)
       /\ \A e \in resp.stock : \A l \in locations :
              e.item.location_id = Some(l.id) => e.location = Some(l)

\* Stock '9999' was added at the TPA Location and is listed with office 'TPA'.
C14_Witness ==
    /\ req.op = "index"
    /\ ~Anonymous(req.cookie)
    /\ \E e \in resp.stock :
          /\ e.item.serial = Some("9999")
          /\ e.location # None
          /\ e.location[1].office = Some("TPA")
          /\ e.location[1].zone = Some("GAR")
          /\ e.location[1].bay = Some("A")

\* C15: every operation, on every input and every outcome of the store, ends in
\* a view or a redirect (init_db: returns).
C15_NoUnhandledFault ==
    /\ req.op = "init_db" => resp = NoResponse
    /\ req.op \in {"add_stock", "index", "login", "logout", "view_notes", "add_note"}
          => resp.kind \in {"render", "redirect"}

\* C18: whenever no operation is in progress, no connection is open: the
\* operation that ran last closed every connection it opened.
C18_ConnectionsClosed == db.opened = db.closed

\* C19: in every session 'username' is present exactly when 'logged_in' is true,
\* and a username that is present is that of a User of the store.
C19_SessionWellFormed ==
    \A c \in Callers :
        /\ session[c].username # None <=> session[c].logged_in = Some(TRUE)
        /\ session[c].username # None
              => \E u \in users : u.username = session[c].username

\* A caller who logged in as 'max' has since made another request.
C19_Witness ==
    /\ req.op = "add_stock"
    /\ Authenticated(session[req.caller], Some("max"))
    /\ \E c \in Callers : Anonymous(session[c])

\* The processes that are back from the operation op.
BackFrom(op) == {w \in Workers : work[w].pc = "idle" /\ work[w].op = op}

\* C11: two add_stock requests that had a Stock of the same serial pending at
\* the same time, and two init_db runs that had User 'max' pending at the same
\* time, end with one commit failed, the other not, and one row of that serial
\* (of that username) in the store.
C11_ConcurrentInsertsOneCommits ==
    \A w \in Workers : \A v \in Workers \ {w} :
        /\ (/\ {w, v} \subseteq BackFrom("add_stock")
            /\ work[w].raced /\ work[v].raced
            /\ work[w].item.serial = work[v].item.serial)
              => /\ work[w].failed # work[v].failed
                 /\ Count({s \in stock : s.serial = work[w].item.serial}) = 1
        /\ (/\ {w, v} \subseteq BackFrom("init_db")
            /\ work[w].raced /\ work[v].raced)
              => /\ work[w].failed # work[v].failed
                 /\ Count({u \in users : u.username = Some("max")}) = 1

\* C16: when two interleaved runs of init_db have both returned, the store holds
\* one Location 'TPA', one Location 'CLW', one User 'max', one Stock '1137' and
\* one Stock '1138', as after a single run.
C16_InterleavedSeedOnce ==
    (\A w \in Workers : w \in BackFrom("init_db")) => SeededOnce

\* The process w takes the step that ends its init_db: the last commit.
Commits(w) == work[w].pc = "commit" /\ work'[w].pc # "commit"

\* C17: the last commit of an init_db that has User 'max' pending while the store
\* already holds a User 'max' writes no row at all, and init_db returns: the
\* process is up and serving.
C17_ViolationCaughtAndDiscarded ==
    [][\A w \in Workers :
          (/\ Commits(w)
           /\ work[w].puser
           /\ \E u \in users : u.username = Some("max"))
             => /\ tables' = tables
                /\ work'[w].pc = "idle"
                /\ work'[w].failed
                /\ running']_vars

\* A run of init_db lost the race for User 'max': it is back with its commit
\* failed, and the store holds the one User 'max' of the other run.
C17_Witness ==
    \E w \in Workers :
        /\ w \in BackFrom("init_db")
        /\ work[w].puser
        /\ work[w].raced
        /\ work[w].failed
        /\ Count({u \in users : u.username = Some("max")}) = 1

\* The number of rows init_db has pending at its last commit.
Pending(w) ==
    (IF work[w].puser THEN 1 ELSE 0) + (IF work[w].p1137 THEN 1 ELSE 0)
        + (IF work[w].p1138 THEN 1 ELSE 0)

\* C20: the last commit of init_db persists either every row that was missing at
\* the lookups or none of them, none exactly when it failed; it touches no
\* Location, and the Locations this run created are in the store after it.
C20_SeedRowsAllOrNone ==
    [][\A w \in Workers :
          Commits(w)
             => LET added == (Count(users') - Count(users))
                                + (Count(stock') - Count(stock))
                IN  /\ added \in {0, Pending(w)}
                    /\ work'[w].failed <=> (added = 0 /\ Pending(w) > 0)
                    /\ users \subseteq users'
                    /\ stock \subseteq stock'
                    /\ locations' = locations
                    /\ work[w].made \subseteq locations']_vars

\* A run of init_db created both Locations, had the User and both Stock rows
\* pending, and its last commit failed: the Locations are in the store, and the
\* store holds no Stock row of this run.
C20_Witness ==
    \E w \in Workers :
        /\ w \in BackFrom("init_db")
        /\ work[w].failed
        /\ work[w].puser /\ work[w].p1137 /\ work[w].p1138
        /\ Count(work[w].made) = 2
        /\ work[w].made \subseteq locations
        /\ Count({s \in stock : s.serial \in {Some("1137"), Some("1138")}}) = 2

=============================================================================
